---- MODULE Spec2Model ----
(***************************************************************************)
(* HADRI disaster-intelligence pipeline: the three feed adapters           *)
(* (data_sources.py), the AOI distance filter and the snapshot of the      *)
(* Streamlit driver (app.py), and the geocode / haversine helpers          *)
(* (utils.py).                                                             *)
(*                                                                         *)
(* Conventions.  Python None / pandas NaN is the string "None".  A float   *)
(* is written as its Python repr ("18.0"); a text cell that float() or     *)
(* pd.to_numeric can read is mapped to that repr by float / to_numeric.    *)
(* Instants are whole seconds since the epoch (UTC).  Distances are whole  *)
(* metres, so distance_km <= radius_km reads d <= radius_km * 1000.        *)
(* An empty DataFrame is the empty sequence.                               *)
(***************************************************************************)
EXTENDS Integers, Sequences, FiniteSets, TLC

VARIABLES pc, hours_back, radius_km, aoi_query, aoi_lat, aoi_lon,
          upstream, returned, quakes, gdacs, fires,
          f_quakes, f_gdacs, f_fires, summary

vars == <<pc, hours_back, radius_km, aoi_query, aoi_lat, aoi_lon,
          upstream, returned, quakes, gdacs, fires,
          f_quakes, f_gdacs, f_fires, summary>>

(***************************************************************************)
(* Bounds of the model.                                                    *)
(***************************************************************************)
MaxEvents == 3
MaxFeed == 2
MaxDriverFeed == 1

(***************************************************************************)
(* Values.                                                                 *)
(***************************************************************************)
None == "None"

SecondsPerHour == 3600
Now == 200 * SecondsPerHour

\* Floats that occur as coordinates, by repr.  CentreLat/CentreLon is the
\* geocoded AOI centre; (EdgeLat, CentreLon) lies exactly 90.0 km from it.
CentreLat == "18.7883"
CentreLon == "98.9853"
EdgeLat == "19.597689445326857"
LatFloats == {CentreLat, "18.0", EdgeLat, "13.7563"}
LonFloats == {CentreLon, "99.0", "100.5018"}
Floats == LatFloats \cup LonFloats \cup {"10.5"}

\* float(text): the number a text denotes, ValueError for anything else.
float(s) ==
    CASE s \in Floats -> s
      [] s = " 18.0 " -> "18.0"
      [] s = "99" -> "99.0"
      [] OTHER -> "ValueError"

\* pd.to_numeric(cell, errors="coerce"): unreadable cells become NaN.
to_numeric(x) == IF float(x) = "ValueError" THEN None ELSE float(x)

Inf == 2000000000

\* haversine_km of utils.py (R = 6371.0) evaluated from the AOI centre
\* (CentreLat, CentreLon) to the points of LatFloats \X LonFloats, in metres
\* rounded down.  Only distances from that centre are tabulated.
HaversineMetres(lat1, lon1, lat2, lon2) ==
    CASE lat1 = CentreLat /\ lon1 = CentreLon ->
        CASE lat2 = "18.7883" /\ lon2 = "98.9853" -> 0
          [] lat2 = "18.7883" /\ lon2 = "99.0" -> 1547
          [] lat2 = "18.7883" /\ lon2 = "100.5018" -> 159641
          [] lat2 = "18.0" /\ lon2 = "98.9853" -> 87654
          [] lat2 = "18.0" /\ lon2 = "99.0" -> 87668
          [] lat2 = "18.0" /\ lon2 = "100.5018" -> 182445
          [] lat2 = "19.597689445326857" /\ lon2 = "98.9853" -> 90000
          [] lat2 = "19.597689445326857" /\ lon2 = "99.0" -> 90013
          [] lat2 = "19.597689445326857" /\ lon2 = "100.5018" -> 182923
          [] lat2 = "13.7563" /\ lon2 = "98.9853" -> 559532
          [] lat2 = "13.7563" /\ lon2 = "99.0" -> 559535
          [] lat2 = "13.7563" /\ lon2 = "100.5018" -> 582458

haversine_km(lat1, lon1, lat2, lon2) ==
    IF None \in {lat1, lon1, lat2, lon2}
    THEN Inf
    ELSE HaversineMetres(lat1, lon1, lat2, lon2)

(***************************************************************************)
(* DataFrame helpers.                                                      *)
(***************************************************************************)
SeqsUpTo(S, n) == UNION {[1..k -> S] : k \in 0..n}

Perms(n) == {p \in [1..n -> 1..n] : \A i, j \in 1..n : p[i] = p[j] => i = j}

\* DataFrame.sort_values(column): every ordering of the rows that is sorted
\* on the column; the order of rows with equal values is not fixed by the
\* default (quicksort) algorithm.
sort_values(rows, column, ascending) ==
    {[i \in 1..Len(rows) |-> rows[p[i]]] : p \in
        {q \in Perms(Len(rows)) :
            \A i \in 1..(Len(rows) - 1) :
                IF ascending
                THEN rows[q[i]][column] <= rows[q[i + 1]][column]
                ELSE rows[q[i]][column] >= rows[q[i + 1]][column]}}

(***************************************************************************)
(* app.py: filter_by_aoi.                                                  *)
(***************************************************************************)
\* rows of df with their pandas index label
Indexed(df) == [i \in 1..Len(df) |-> [index |-> i, event |-> df[i],
                                       latitude |-> df[i].latitude,
                                       longitude |-> df[i].longitude]]

dropna(rows) ==
    LET Has(r) == r.latitude # None /\ r.longitude # None
    IN SelectSeq(rows, Has)

coerce(rows) ==
    [i \in 1..Len(rows) |->
        [rows[i] EXCEPT !.latitude = to_numeric(@), !.longitude = to_numeric(@)]]

with_distance(rows, lat, lon) ==
    [i \in 1..Len(rows) |->
        [index |-> rows[i].index, event |-> rows[i].event,
         latitude |-> rows[i].latitude, longitude |-> rows[i].longitude,
         distance_km |-> haversine_km(lat, lon, rows[i].latitude, rows[i].longitude)]]

\* variant: the boundary is left out
within_radius_strict(rows, radius) ==
    LET In(r) == r.distance_km < radius * 1000
    IN SelectSeq(rows, In)

within_radius(rows, radius) ==
    LET In(r) == r.distance_km <= radius * 1000
    IN SelectSeq(rows, In)

\* variant: sort_values is left out, the rows come back in any order
filter_by_aoi_unsorted(df, lat, lon, radius) ==
    IF Len(df) = 0 \/ lat = None \/ lon = None
    THEN {<<>>}
    ELSE LET f == dropna(coerce(dropna(Indexed(df))))
             kept == within_radius(with_distance(f, lat, lon), radius)
         IN IF Len(f) = 0
            THEN {<<>>}
            ELSE {[i \in 1..Len(kept) |-> kept[p[i]]] : p \in Perms(Len(kept))}

\* the set of frames filter_by_aoi may return
filter_by_aoi(df, lat, lon, radius) ==
    IF Len(df) = 0 \/ lat = None \/ lon = None
    THEN {<<>>}
    ELSE LET f == dropna(coerce(dropna(Indexed(df))))
         IN IF Len(f) = 0
            THEN {<<>>}
            ELSE sort_values(within_radius(with_distance(f, lat, lon), radius),
                             "distance_km", TRUE)

(***************************************************************************)
(* data_sources.py: outcomes of an adapter call.                           *)
(***************************************************************************)
Raised == [raised |-> TRUE, rows |-> <<>>]
Returned(rows) == [raised |-> FALSE, rows |-> rows]

\* Python list subscript (0-based)
PyIndex(list, i) == IF i + 1 <= Len(list) THEN list[i + 1] ELSE "IndexError"

(***************************************************************************)
(* data_sources.py: fetch_usgs_quakes.                                     *)
(* A feature is [has_time, time (ms), coordinates], coordinates being      *)
(* [kind |-> "absent" | "null" | "array", array |-> <<...>>]: "absent" is  *)
(* a null or missing geometry or a geometry without the key.               *)
(***************************************************************************)
usgs_url(hours) == IF hours <= 1 THEN "all_hour.geojson" ELSE "all_day.geojson"

\* what the server publishes under each feed name: the features of the
\* past hour / past day (features without a time are in both)
usgs_feed(url, features) ==
    LET window == IF url = "all_hour.geojson" THEN SecondsPerHour
                  ELSE 24 * SecondsPerHour
        InFeed(f) == ~f.has_time \/ f.time >= (Now - window) * 1000
    IN SelectSeq(features, InFeed)

\* geom.get("coordinates", [None, None, None])
usgs_coords(f) ==
    IF f.coordinates.kind = "absent" THEN <<None, None, None>>
    ELSE f.coordinates.array

\* the dict appended for one feature, or the exception its construction raises
usgs_row(f) ==
    LET coords == usgs_coords(f)
        time == IF f.has_time /\ f.time # 0 THEN f.time ELSE 0
    IN IF f.coordinates.kind = "null"
       THEN [error |-> "TypeError", row |-> <<>>]
       ELSE IF "IndexError" \in {PyIndex(coords, 1), PyIndex(coords, 0), PyIndex(coords, 2)}
       THEN [error |-> "IndexError", row |-> <<>>]
       ELSE [error |-> "",
             row |-> [time_utc |-> time \div 1000,
                      latitude |-> PyIndex(coords, 1),
                      longitude |-> PyIndex(coords, 0),
                      depth_km |-> PyIndex(coords, 2)]]

fetch_usgs_quakes(up, hours) ==
    IF ~up.ok
    THEN {Raised}
    ELSE LET feats == usgs_feed(usgs_url(hours), up.features)
             rows == [i \in 1..Len(feats) |-> usgs_row(feats[i])]
         IN IF \E i \in 1..Len(feats) : rows[i].error # ""
            THEN {Raised}
            ELSE {Returned(s) : s \in
                    sort_values([i \in 1..Len(feats) |-> rows[i].row], "time_utc", FALSE)}

(***************************************************************************)
(* data_sources.py: fetch_gdacs_events.                                    *)
(* An item is [dc_date, pubDate, lat, long, lon]; a date tag is            *)
(* [form |-> "absent" | "iso_z" | "iso_naive" | "rfc822", t |-> seconds],  *)
(* a geo tag is its text or None.                                          *)
(***************************************************************************)
NoTag == [form |-> "absent", t |-> 0]

\* a or b : b when a is None or the empty text
Or(a, b) == IF a = None \/ a = "" THEN b ELSE a

gdacs_pubdate(it) ==
    IF it.dc_date.form # "absent" THEN it.dc_date
    ELSE IF it.pubDate.form # "absent" THEN it.pubDate
    ELSE NoTag

\* datetime.fromisoformat(pubdate.replace("Z", "+00:00"))
fromisoformat(d) ==
    CASE d.form = "iso_z" -> [ok |-> TRUE, aware |-> TRUE, t |-> d.t]
      [] d.form = "iso_naive" -> [ok |-> TRUE, aware |-> FALSE, t |-> d.t]
      [] OTHER -> [ok |-> FALSE, aware |-> FALSE, t |-> 0]

gdacs_time(it) ==
    LET p == fromisoformat(gdacs_pubdate(it))
    IN IF p.ok THEN p ELSE [ok |-> TRUE, aware |-> TRUE, t |-> Now]

gdacs_cell(text) == IF text = None \/ text = "" THEN None ELSE float(text)

\* variant: the cutoff test is left out
gdacs_row_nocutoff(it, cutoff) ==
    LET lat == it.lat
        lon == Or(it.long, it.lon)
        t == gdacs_time(it)
    IN IF ~t.aware THEN [status |-> "TypeError", row |-> <<>>]
       ELSE IF "ValueError" \in {gdacs_cell(lat), gdacs_cell(lon)}
       THEN [status |-> "ValueError", row |-> <<>>]
       ELSE [status |-> "row",
             row |-> [time_utc |-> t.t,
                      latitude |-> gdacs_cell(lat),
                      longitude |-> gdacs_cell(lon)]]

\* one pass of the loop body: the row appended, "skip" for continue, or
\* the exception raised
gdacs_row(it, cutoff) ==
    LET lat == it.lat
        lon == Or(it.long, it.lon)
        t == gdacs_time(it)
    IN IF ~t.aware THEN [status |-> "TypeError", row |-> <<>>]
       ELSE IF t.t < cutoff THEN [status |-> "skip", row |-> <<>>]
       ELSE IF "ValueError" \in {gdacs_cell(lat), gdacs_cell(lon)}
       THEN [status |-> "ValueError", row |-> <<>>]
       ELSE [status |-> "row",
             row |-> [time_utc |-> t.t,
                      latitude |-> gdacs_cell(lat),
                      longitude |-> gdacs_cell(lon)]]

\* the loop over the items: an exception ends it
RECURSIVE gdacs_loop(_, _, _, _)
gdacs_loop(items, i, cutoff, rows) ==
    IF i > Len(items) THEN Returned(rows)
    ELSE LET r == gdacs_row(items[i], cutoff)
         IN IF r.status \in {"TypeError", "ValueError"} THEN Raised
            ELSE IF r.status = "skip" THEN gdacs_loop(items, i + 1, cutoff, rows)
            ELSE gdacs_loop(items, i + 1, cutoff, Append(rows, r.row))

fetch_gdacs_events(up, hours) ==
    IF ~up.ok
    THEN {Raised}
    ELSE LET cutoff == Now - hours * SecondsPerHour
             o == gdacs_loop(up.items, 1, cutoff, <<>>)
         IN IF o.raised THEN {Raised}
            ELSE {Returned(s) : s \in sort_values(o.rows, "time_utc", FALSE)}

(***************************************************************************)
(* data_sources.py: fetch_nasa_firms.                                      *)
(* endpoints[1] is the primary URL, endpoints[2] and endpoints[3] the      *)
(* fallbacks.  A response is [kind, rows]: "error" (HTTP failure or a body *)
(* read_csv rejects), "csv" (the expected columns) or "other_columns" (a   *)
(* table read_csv accepts that lacks the expected columns).  A csv row is  *)
(* [acq_date, acq_time, latitude, longitude] with acq_date                 *)
(* [kind |-> "date" | "null" | "text", day |-> days since the epoch] and   *)
(* acq_time the integer HHMM of the file.                                  *)
(***************************************************************************)
NaT == -1

try_read_raises(resp) == resp.kind = "error"

\* variant: the break is missing, every fallback is read and the last good one kept
RECURSIVE try_fallbacks_nobreak(_, _, _)
try_fallbacks_nobreak(endpoints, i, attempted) ==
    IF i > Len(endpoints)
    THEN [attempted |-> attempted, used |-> 0]
    ELSE LET rest == try_fallbacks_nobreak(endpoints, i + 1, Append(attempted, i))
         IN IF try_read_raises(endpoints[i]) \/ rest.used # 0
            THEN rest
            ELSE [attempted |-> rest.attempted, used |-> i]

\* for u in fallbacks: try: df = try_read(u); break / except: continue
RECURSIVE try_fallbacks(_, _, _)
try_fallbacks(endpoints, i, attempted) ==
    IF i > Len(endpoints)
    THEN [attempted |-> attempted, used |-> 0]
    ELSE IF try_read_raises(endpoints[i])
         THEN try_fallbacks(endpoints, i + 1, Append(attempted, i))
         ELSE [attempted |-> Append(attempted, i), used |-> i]

\* variant: a primary without rows is treated like a failed read
try_chain_skip_empty(endpoints) ==
    IF try_read_raises(endpoints[1]) \/ Len(endpoints[1].rows) = 0
    THEN try_fallbacks(endpoints, 2, <<1>>)
    ELSE [attempted |-> <<1>>, used |-> 1]

\* the try/except around the primary; used = 0 stands for df is None
try_chain(endpoints) ==
    IF try_read_raises(endpoints[1])
    THEN try_fallbacks(endpoints, 2, <<1>>)
    ELSE [attempted |-> <<1>>, used |-> 1]

\* acq_date + " " + zfill(acq_time, 4) read with "%Y-%m-%d %H%M"
firms_datetime(r) ==
    LET hour == r.acq_time \div 100
        minute == r.acq_time % 100
    IN CASE r.acq_date.kind = "null" -> [error |-> FALSE, t |-> NaT]
         [] r.acq_date.kind = "text" -> [error |-> TRUE, t |-> NaT]
         [] OTHER -> IF hour > 23 \/ minute > 59
                     THEN [error |-> TRUE, t |-> NaT]
                     ELSE [error |-> FALSE,
                           t |-> r.acq_date.day * 24 * SecondsPerHour
                                 + hour * SecondsPerHour + minute * 60]

FirmsOutcome(raised, rows, chain, early) ==
    [raised |-> raised, rows |-> rows, attempted |-> chain.attempted,
     used |-> chain.used, early |-> early]

firms_select(rows) ==
    [i \in 1..Len(rows) |-> [time_utc |-> rows[i].time_utc,
                             latitude |-> rows[i].latitude,
                             longitude |-> rows[i].longitude]]

fetch_nasa_firms(up, hours) ==
    LET chain == try_chain(up.endpoints)
        df == up.endpoints[IF chain.used = 0 THEN 1 ELSE chain.used]
        cutoff == Now - hours * SecondsPerHour
        dts == [i \in 1..Len(df.rows) |-> firms_datetime(df.rows[i])]
        timed == [i \in 1..Len(df.rows) |->
                    [time_utc |-> dts[i].t, latitude |-> df.rows[i].latitude,
                     longitude |-> df.rows[i].longitude]]
        Recent(r) == r.time_utc # NaT /\ r.time_utc >= cutoff
    IN IF chain.used = 0 \/ Len(df.rows) = 0
       THEN {FirmsOutcome(FALSE, <<>>, chain, TRUE)}
       ELSE IF df.kind = "other_columns"
            \* KeyError on acq_date is caught; the comparison of the
            \* tz-naive NaT column or the column selection then raises
       THEN {FirmsOutcome(TRUE, <<>>, chain, FALSE)}
       ELSE IF \E i \in 1..Len(df.rows) : dts[i].error
            \* to_datetime raised: time_utc = pd.NaT for every row.  The
            \* comparison of that tz-naive column with the aware cutoff
            \* raises TypeError or, where the library lets it through,
            \* is False for every row.
       THEN {FirmsOutcome(TRUE, <<>>, chain, FALSE),
             FirmsOutcome(FALSE, <<>>, chain, FALSE)}
       ELSE {FirmsOutcome(FALSE, s, chain, FALSE) : s \in
                sort_values(firms_select(SelectSeq(timed, Recent)), "time_utc", FALSE)}

(***************************************************************************)
(* utils.py: geocode.  A response is [ok, candidates].                     *)
(***************************************************************************)
geocode(resp) ==
    IF ~resp.ok
    THEN [raised |-> TRUE, error |-> "HTTPError", lat |-> None, lon |-> None]
    ELSE IF Len(resp.candidates) = 0
    THEN [raised |-> TRUE, error |-> "No results", lat |-> None, lon |-> None]
    ELSE [raised |-> FALSE, error |-> "",
          lat |-> float(resp.candidates[1].lat),
          lon |-> float(resp.candidates[1].lon)]

(***************************************************************************)
(* Inputs: what the user enters and what the remote services answer.       *)
(***************************************************************************)
SliderHours == {6, 24}
RadiusChoices == {10, 90, 250}
QueryChoices == {"", "Chiang Mai, Thailand"}

Cutoff(hours) == Now - hours * SecondsPerHour

Coords(kind, array) == [kind |-> kind, array |-> array]
Feature(has_time, time, coordinates) ==
    [has_time |-> has_time, time |-> time, coordinates |-> coordinates]

UsgsFeatures ==
    { Feature(TRUE, (Now - 1800) * 1000, Coords("array", <<"99.0", "18.0", "10.5">>)),
      Feature(TRUE, (Now - 7 * SecondsPerHour) * 1000,
              Coords("array", <<"100.5018", "13.7563", "10.5">>)),
      Feature(FALSE, 0, Coords("array", <<CentreLon, CentreLat, "10.5">>)),
      Feature(TRUE, (Now - 1800) * 1000, Coords("absent", <<>>)),
      Feature(TRUE, (Now - 1800) * 1000, Coords("null", <<>>)),
      Feature(TRUE, (Now - 1800) * 1000, Coords("array", <<"99.0", "18.0">>)),
      Feature(TRUE, (Now - 1800) * 1000, Coords("array", <<None, "18.0", "10.5">>)) }

UsgsUpstreams(n) ==
    {[ok |-> FALSE, features |-> <<>>]}
        \cup {[ok |-> TRUE, features |-> fs] : fs \in SeqsUpTo(UsgsFeatures, n)}

IsoZ(t) == [form |-> "iso_z", t |-> t]
IsoNaive(t) == [form |-> "iso_naive", t |-> t]
Rfc822(t) == [form |-> "rfc822", t |-> t]
Item(dc_date, pubDate, lat, long, lon) ==
    [dc_date |-> dc_date, pubDate |-> pubDate, lat |-> lat, long |-> long, lon |-> lon]

GdacsItems ==
    { Item(IsoZ(Cutoff(h) + d), NoTag, "18.0", "99.0", None) :
          h \in SliderHours, d \in {-1, 0} }
    \cup
    { Item(IsoNaive(Now - SecondsPerHour), NoTag, "18.0", "99.0", None),
      Item(NoTag, Rfc822(Cutoff(24) - 1), "18.0", "99.0", None),
      Item(NoTag, NoTag, "18.0", "99.0", None),
      Item(IsoZ(Cutoff(24) - 1), IsoZ(Now), "18.0", "99.0", None),
      Item(NoTag, IsoZ(Now - SecondsPerHour), CentreLat, None, CentreLon),
      Item(IsoZ(Now - SecondsPerHour), NoTag, "18.0", None, None),
      Item(IsoZ(Now - SecondsPerHour), NoTag, None, "99.0", None),
      Item(IsoZ(Now - SecondsPerHour), NoTag, None, None, None),
      Item(IsoZ(Now - SecondsPerHour), NoTag, "n/a", "99.0", None),
      Item(IsoZ(Now - SecondsPerHour), NoTag, " 18.0 ", "", "99") }

GdacsUpstreams(n) ==
    {[ok |-> FALSE, items |-> <<>>]}
        \cup {[ok |-> TRUE, items |-> its] : its \in SeqsUpTo(GdacsItems, n)}

Date(day) == [kind |-> "date", day |-> day]
FireRow(acq_date, acq_time, latitude, longitude) ==
    [acq_date |-> acq_date, acq_time |-> acq_time,
     latitude |-> latitude, longitude |-> longitude]

\* day 8 02:00 is Cutoff(6); 159 is the file's 01:59
FireRows ==
    { FireRow(Date(8), 200, "18.0", "99.0"),
      FireRow(Date(8), 159, "13.7563", "100.5018"),
      FireRow([kind |-> "null", day |-> 0], 200, CentreLat, CentreLon),
      FireRow([kind |-> "text", day |-> 0], 200, "18.0", "99.0") }

FireResponses(n) ==
    {[kind |-> "error", rows |-> <<>>],
     [kind |-> "other_columns", rows |-> <<FireRow(Date(8), 200, None, None)>>]}
        \cup {[kind |-> "csv", rows |-> rs] : rs \in SeqsUpTo(FireRows, n)}

FirmsUpstreams(n) ==
    {[endpoints |-> e] : e \in [1..3 -> FireResponses(n)]}

GeocodeResponses ==
    {[ok |-> FALSE, candidates |-> <<>>],
     [ok |-> TRUE, candidates |-> <<>>],
     [ok |-> TRUE, candidates |-> <<[lat |-> CentreLat, lon |-> CentreLon]>>]}

Nothing == <<>>

(***************************************************************************)
(* SpecAdapters: one call of an adapter.                                   *)
(***************************************************************************)
AdapterIdle ==
    /\ radius_km = 10 /\ aoi_query = "" /\ aoi_lat = None /\ aoi_lon = None
    /\ quakes = <<>> /\ gdacs = <<>> /\ fires = <<>>
    /\ f_quakes = <<>> /\ f_gdacs = <<>> /\ f_fires = <<>>
    /\ summary = Nothing

InitAdapters ==
    /\ pc = "call"
    /\ hours_back \in SliderHours
    /\ upstream = Nothing
    /\ returned = Nothing
    /\ AdapterIdle

AdapterFrame ==
    UNCHANGED <<hours_back, radius_km, aoi_query, aoi_lat, aoi_lon, quakes, gdacs,
                fires, f_quakes, f_gdacs, f_fires, summary>>

CallUsgs ==
    /\ pc = "call"
    /\ \E up \in UsgsUpstreams(MaxFeed) :
        \E o \in fetch_usgs_quakes(up, hours_back) :
            /\ upstream' = up
            /\ returned' = ("usgs" :> o)
    /\ pc' = "usgs"
    /\ AdapterFrame

CallGdacs ==
    /\ pc = "call"
    /\ \E up \in GdacsUpstreams(MaxFeed) :
        \E o \in fetch_gdacs_events(up, hours_back) :
            /\ upstream' = up
            /\ returned' = ("gdacs" :> o)
    /\ pc' = "gdacs"
    /\ AdapterFrame

CallFirms ==
    /\ pc = "call"
    /\ \E up \in FirmsUpstreams(MaxFeed) :
        \E o \in fetch_nasa_firms(up, hours_back) :
            /\ upstream' = up
            /\ returned' = ("firms" :> o)
    /\ pc' = "firms"
    /\ AdapterFrame

NextAdapters == CallUsgs \/ CallGdacs \/ CallFirms

SpecAdapters == InitAdapters /\ [][NextAdapters]_vars

(***************************************************************************)
(* SpecFilter: one call of filter_by_aoi on an event list.                 *)
(***************************************************************************)
Event(latitude, longitude) == [latitude |-> latitude, longitude |-> longitude]

EventRows ==
    { Event(CentreLat, CentreLon), Event("18.0", "99.0"), Event(EdgeLat, CentreLon),
      Event("13.7563", "100.5018"), Event(None, "99.0"), Event("18.0", None),
      Event(None, None), Event("n/a", "99.0") }

InitFilter ==
    /\ pc = "filter"
    /\ hours_back \in {24}
    /\ radius_km \in RadiusChoices
    /\ aoi_query = "Chiang Mai, Thailand"
    /\ \/ aoi_lat = CentreLat /\ aoi_lon = CentreLon
       \/ aoi_lat = None /\ aoi_lon = None
    /\ upstream = Nothing /\ returned = Nothing
    /\ quakes \in SeqsUpTo(EventRows, MaxEvents)
    /\ gdacs = <<>> /\ fires = <<>>
    /\ f_quakes = <<>> /\ f_gdacs = <<>> /\ f_fires = <<>>
    /\ summary = Nothing

CallFilter ==
    /\ pc = "filter"
    /\ f_quakes' \in filter_by_aoi(quakes, aoi_lat, aoi_lon, radius_km)
    /\ pc' = "filtered"
    /\ UNCHANGED <<hours_back, radius_km, aoi_query, aoi_lat, aoi_lon, upstream,
                   returned, quakes, gdacs, fires, f_gdacs, f_fires, summary>>

NextFilter == CallFilter

SpecFilter == InitFilter /\ [][NextFilter]_vars

(***************************************************************************)
(* Spec: one run of the app.py script, top to bottom.  The display blocks  *)
(* (st.dataframe, the pydeck map) read the frames and the centre and       *)
(* assign nothing the snapshot reads; they are not steps of their own.     *)
(***************************************************************************)
DriverFeatures ==
    { Feature(TRUE, (Now - 1800) * 1000, Coords("array", <<"99.0", "18.0", "10.5">>)),
      Feature(TRUE, (Now - 7 * SecondsPerHour) * 1000,
              Coords("array", <<"100.5018", "13.7563", "10.5">>)),
      Feature(TRUE, (Now - 1800) * 1000, Coords("array", <<"99.0", "18.0">>)) }

DriverItems ==
    { Item(NoTag, IsoZ(Now - SecondsPerHour), CentreLat, None, CentreLon),
      Item(IsoZ(Now - SecondsPerHour), NoTag, "18.0", None, None),
      Item(IsoZ(Now - SecondsPerHour), NoTag, "n/a", "99.0", None) }

DriverFireResponses(n) ==
    {[kind |-> "error", rows |-> <<>>]}
        \cup {[kind |-> "csv", rows |-> rs] : rs \in
                SeqsUpTo({ FireRow(Date(8), 200, "18.0", "99.0"),
                           FireRow(Date(8), 159, "13.7563", "100.5018") }, n)}

DriverUsgsUpstreams(n) ==
    {[ok |-> FALSE, features |-> <<>>]}
        \cup {[ok |-> TRUE, features |-> fs] : fs \in SeqsUpTo(DriverFeatures, n)}

DriverGdacsUpstreams(n) ==
    {[ok |-> FALSE, items |-> <<>>]}
        \cup {[ok |-> TRUE, items |-> its] : its \in SeqsUpTo(DriverItems, n)}

DriverFirmsUpstreams(n) ==
    {[endpoints |-> e] : e \in [1..3 -> DriverFireResponses(n)]}

\* variant: no handler, the adapter's exception leaves the script
try_fetch_reraise(o) ==
    [propagates |-> o.raised, df |-> IF o.raised THEN <<>> ELSE o.rows]

\* try: x = fetch(...) / except Exception: st.warning(...); x = pd.DataFrame()
try_fetch(o) ==
    [propagates |-> FALSE, df |-> IF o.raised THEN <<>> ELSE o.rows]

Init ==
    /\ pc = "fetch_usgs"
    /\ hours_back \in SliderHours
    /\ radius_km \in RadiusChoices
    /\ aoi_query \in QueryChoices
    /\ aoi_lat = None /\ aoi_lon = None
    /\ upstream = Nothing /\ returned = Nothing
    /\ quakes = <<>> /\ gdacs = <<>> /\ fires = <<>>
    /\ f_quakes = <<>> /\ f_gdacs = <<>> /\ f_fires = <<>>
    /\ summary = Nothing

FetchUsgs ==
    /\ pc = "fetch_usgs"
    /\ \E up \in DriverUsgsUpstreams(MaxDriverFeed) :
        \E o \in fetch_usgs_quakes(up, hours_back) :
            /\ returned' = returned @@ ("usgs" :> o)
            /\ IF try_fetch(o).propagates
               THEN pc' = "aborted" /\ quakes' = quakes
               ELSE pc' = "fetch_gdacs" /\ quakes' = try_fetch(o).df
    /\ UNCHANGED <<hours_back, radius_km, aoi_query, aoi_lat, aoi_lon, upstream,
                   gdacs, fires, f_quakes, f_gdacs, f_fires, summary>>

FetchGdacs ==
    /\ pc = "fetch_gdacs"
    /\ \E up \in DriverGdacsUpstreams(MaxDriverFeed) :
        \E o \in fetch_gdacs_events(up, hours_back) :
            /\ returned' = returned @@ ("gdacs" :> o)
            /\ IF try_fetch(o).propagates
               THEN pc' = "aborted" /\ gdacs' = gdacs
               ELSE pc' = "fetch_firms" /\ gdacs' = try_fetch(o).df
    /\ UNCHANGED <<hours_back, radius_km, aoi_query, aoi_lat, aoi_lon, upstream,
                   quakes, fires, f_quakes, f_gdacs, f_fires, summary>>

FetchFirms ==
    /\ pc = "fetch_firms"
    /\ \E up \in DriverFirmsUpstreams(MaxDriverFeed) :
        \E o \in fetch_nasa_firms(up, hours_back) :
            /\ returned' = returned @@ ("firms" :> o)
            /\ IF try_fetch(o).propagates
               THEN pc' = "aborted" /\ fires' = fires
               ELSE pc' = "geocode" /\ fires' = try_fetch(o).df
    /\ UNCHANGED <<hours_back, radius_km, aoi_query, aoi_lat, aoi_lon, upstream,
                   quakes, gdacs, f_quakes, f_gdacs, f_fires, summary>>

\* if aoi_query: try: aoi_lat, aoi_lon = geocode(aoi_query) / except: st.error
Geocode ==
    /\ pc = "geocode"
    /\ aoi_query # ""
    /\ \E resp \in GeocodeResponses :
        LET o == geocode(resp)
        IN /\ returned' = returned @@ ("geocode" :> o)
           /\ aoi_lat' = IF o.raised THEN aoi_lat ELSE o.lat
           /\ aoi_lon' = IF o.raised THEN aoi_lon ELSE o.lon
    /\ pc' = "filter_quakes"
    /\ UNCHANGED <<hours_back, radius_km, aoi_query, upstream, quakes, gdacs,
                   fires, f_quakes, f_gdacs, f_fires, summary>>

NoGeocode ==
    /\ pc = "geocode"
    /\ aoi_query = ""
    /\ pc' = "filter_quakes"
    /\ UNCHANGED <<hours_back, radius_km, aoi_query, aoi_lat, aoi_lon, upstream,
                   returned, quakes, gdacs, fires, f_quakes, f_gdacs, f_fires,
                   summary>>

FilterQuakes ==
    /\ pc = "filter_quakes"
    /\ f_quakes' \in filter_by_aoi(quakes, aoi_lat, aoi_lon, radius_km)
    /\ pc' = "filter_gdacs"
    /\ UNCHANGED <<hours_back, radius_km, aoi_query, aoi_lat, aoi_lon, upstream,
                   returned, quakes, gdacs, fires, f_gdacs, f_fires, summary>>

FilterGdacs ==
    /\ pc = "filter_gdacs"
    /\ f_gdacs' \in filter_by_aoi(gdacs, aoi_lat, aoi_lon, radius_km)
    /\ pc' = "filter_fires"
    /\ UNCHANGED <<hours_back, radius_km, aoi_query, aoi_lat, aoi_lon, upstream,
                   returned, quakes, gdacs, fires, f_quakes, f_fires, summary>>

FilterFires ==
    /\ pc = "filter_fires"
    /\ f_fires' \in filter_by_aoi(fires, aoi_lat, aoi_lon, radius_km)
    /\ pc' = "snapshot"
    /\ UNCHANGED <<hours_back, radius_km, aoi_query, aoi_lat, aoi_lon, upstream,
                   returned, quakes, gdacs, fires, f_quakes, f_gdacs, summary>>

\* variant: the in-AOI counts are taken from the unfiltered frames
make_summary_totals(q, g, f, fq, fg, ff) ==
    [generated_at_utc |-> Now,
     hours_back |-> hours_back,
     aoi |-> [query |-> aoi_query, lat |-> aoi_lat, lon |-> aoi_lon,
              radius_km |-> radius_km],
     counts |-> [usgs_total |-> Len(q), gdacs_total |-> Len(g),
                 fires_total |-> Len(f), usgs_in_aoi |-> Len(q),
                 gdacs_in_aoi |-> Len(g), fires_in_aoi |-> Len(f)]]

make_summary(q, g, f, fq, fg, ff) ==
    [generated_at_utc |-> Now,
     hours_back |-> hours_back,
     aoi |-> [query |-> aoi_query, lat |-> aoi_lat, lon |-> aoi_lon,
              radius_km |-> radius_km],
     counts |-> [usgs_total |-> Len(q), gdacs_total |-> Len(g),
                 fires_total |-> Len(f), usgs_in_aoi |-> Len(fq),
                 gdacs_in_aoi |-> Len(fg), fires_in_aoi |-> Len(ff)]]

Snapshot ==
    /\ pc = "snapshot"
    /\ summary' = make_summary(quakes, gdacs, fires, f_quakes, f_gdacs, f_fires)
    /\ pc' = "done"
    /\ UNCHANGED <<hours_back, radius_km, aoi_query, aoi_lat, aoi_lon, upstream,
                   returned, quakes, gdacs, fires, f_quakes, f_gdacs, f_fires>>

Next ==
    \/ FetchUsgs \/ FetchGdacs \/ FetchFirms
    \/ Geocode \/ NoGeocode
    \/ FilterQuakes \/ FilterGdacs \/ FilterFires
    \/ Snapshot

Spec == Init /\ [][Next]_vars

(***************************************************************************)
(* Properties of filter_by_aoi (SpecFilter).                               *)
(***************************************************************************)
Range(seq) == {seq[i] : i \in 1..Len(seq)}

AoiResolved == aoi_lat # None /\ aoi_lon # None

\* distance in metres of an event from the AOI centre; an event whose
\* coordinates are absent or not numbers has none
DistanceOf(e) ==
    IF e.latitude = None \/ e.longitude = None THEN Inf
    ELSE IF e.latitude \notin Floats \/ e.longitude \notin Floats THEN Inf
    ELSE HaversineMetres(aoi_lat, aoi_lon, e.latitude, e.longitude)

\* C1: with a resolved centre, filter_by_aoi returns exactly the input
\* events that have both coordinates and lie at most radius_km from the
\* centre, boundary included: each returned row is an input event with
\* distance_km <= radius_km, each such input event is returned once, and an
\* event lacking a latitude or a longitude is never returned.
C1_FilterExact ==
    (pc = "filtered" /\ AoiResolved) =>
        /\ \A r \in Range(f_quakes) :
            /\ r.index \in 1..Len(quakes)
            /\ r.event = quakes[r.index]
            /\ r.distance_km = DistanceOf(r.event)
            /\ r.distance_km <= radius_km * 1000
            /\ r.event.latitude # None /\ r.event.longitude # None
        /\ {r.index : r \in Range(f_quakes)} =
              {i \in 1..Len(quakes) : DistanceOf(quakes[i]) <= radius_km * 1000}
        /\ \A i, j \in 1..Len(f_quakes) :
              f_quakes[i].index = f_quakes[j].index => i = j

\* an event exactly at the radius was kept while an event without a
\* latitude and an event beyond the radius were dropped
C1_Witness ==
    /\ pc = "filtered" /\ AoiResolved
    /\ \E r \in Range(f_quakes) : r.distance_km = radius_km * 1000
    /\ \E i \in 1..Len(quakes) : quakes[i].latitude = None /\ quakes[i].longitude # None
    /\ \E i \in 1..Len(quakes) :
          DistanceOf(quakes[i]) > radius_km * 1000 /\ DistanceOf(quakes[i]) < Inf

\* C2: the rows filter_by_aoi returns are ordered nearest first: the
\* distance_km of each row is at most that of the row after it.
C2_NearestFirst ==
    pc = "filtered" =>
        \A i \in 1..(Len(f_quakes) - 1) :
            f_quakes[i].distance_km <= f_quakes[i + 1].distance_km

\* the input listed a farther event before a nearer one and both were kept
C2_Witness ==
    /\ pc = "filtered"
    /\ Len(f_quakes) >= 2
    /\ f_quakes[1].distance_km < f_quakes[2].distance_km
    /\ f_quakes[1].index > f_quakes[2].index

(***************************************************************************)
(* Properties of the driver (Spec).                                        *)
(***************************************************************************)
Sources == {"usgs", "gdacs", "firms"}

Called(s) == s \in DOMAIN returned

FrameOf(s) ==
    CASE s = "usgs" -> quakes
      [] s = "gdacs" -> gdacs
      [] s = "firms" -> fires

FetchStage == {"fetch_usgs", "fetch_gdacs", "fetch_firms"}

\* C3: a failing adapter leaves an empty list for its source only: every
\* fetch is attempted whatever the earlier ones did, each list is empty if
\* its adapter raised and is what the adapter returned otherwise, no
\* adapter failure leaves the script, and the run can always go on until
\* the snapshot is built.
C3_FailureIsolation ==
    /\ pc # "aborted"
    /\ pc \notin FetchStage => \A s \in Sources : Called(s)
    /\ \A s \in Sources :
          Called(s) => FrameOf(s) = IF returned[s].raised THEN <<>> ELSE returned[s].rows
    /\ pc # "done" => ENABLED Next
    /\ pc = "done" => summary.counts.usgs_total = Len(quakes)

\* the seismic fetch failed, the two others returned events, the snapshot
\* was built
C3_Witness ==
    /\ pc = "done"
    /\ returned["usgs"].raised
    /\ ~returned["gdacs"].raised /\ Len(gdacs) > 0
    /\ ~returned["firms"].raised /\ Len(fires) > 0
    /\ summary.counts.usgs_total = 0
    /\ summary.counts.gdacs_total > 0

NoCandidate == Called("geocode") /\ returned["geocode"].error = "No results"

\* C4: when the geocoder finds no candidate the centre stays absent, the
\* three filter calls return empty frames whatever was fetched, the
\* snapshot reports 0 for the three in-AOI counts and the lengths of the
\* fetched lists for the three totals, and no exception leaves the script.
C4_GeocodeFailure ==
    NoCandidate =>
        /\ pc # "aborted"
        /\ aoi_lat = None /\ aoi_lon = None
        /\ f_quakes = <<>> /\ f_gdacs = <<>> /\ f_fires = <<>>
        /\ pc = "done" =>
            /\ summary.aoi.lat = None /\ summary.aoi.lon = None
            /\ summary.counts.usgs_in_aoi = 0
            /\ summary.counts.gdacs_in_aoi = 0
            /\ summary.counts.fires_in_aoi = 0
            /\ summary.counts.usgs_total = Len(returned["usgs"].rows)
            /\ summary.counts.gdacs_total = Len(returned["gdacs"].rows)
            /\ summary.counts.fires_total = Len(returned["firms"].rows)

\* no candidate, yet every source delivered events with coordinates
C4_Witness ==
    /\ pc = "done" /\ NoCandidate
    /\ \A s \in Sources :
          \E r \in Range(FrameOf(s)) : r.latitude # None /\ r.longitude # None
    /\ summary.counts.fires_total > 0

(***************************************************************************)
(* Properties of the adapters (SpecAdapters).                              *)
(***************************************************************************)
Fails(resp) == resp.kind = "error"

\* index of the first endpoint whose read succeeds, 0 if none does
FirstGood(endpoints) ==
    IF \A i \in 1..3 : Fails(endpoints[i]) THEN 0
    ELSE CHOOSE i \in 1..3 :
            ~Fails(endpoints[i]) /\ \A j \in 1..(i - 1) : Fails(endpoints[j])

\* index of the first endpoint whose read succeeds with rows, 0 if none does
FirstNonEmpty(endpoints) ==
    IF \A i \in 1..3 : Fails(endpoints[i]) \/ Len(endpoints[i].rows) = 0 THEN 0
    ELSE CHOOSE i \in 1..3 :
            /\ ~Fails(endpoints[i]) /\ Len(endpoints[i].rows) > 0
            /\ \A j \in 1..(i - 1) :
                  Fails(endpoints[j]) \/ Len(endpoints[j].rows) = 0

\* C5: fetch_nasa_firms reads the endpoints in the order primary,
\* alternate 1, alternate 2; an endpoint is read only if every earlier read
\* failed; nothing is read after a read that succeeded; the data used is
\* that of the first endpoint whose read succeeded.
C5_FallbackOrder ==
    pc = "firms" =>
        LET o == returned["firms"]
            e == upstream.endpoints
            n == Len(o.attempted)
        IN /\ n \in 1..3
           /\ \A i \in 1..n : o.attempted[i] = i
           /\ \A i \in 1..(n - 1) : Fails(e[i])
           /\ n < 3 => ~Fails(e[n])
           /\ ~Fails(e[1]) => o.attempted = <<1>>
           /\ o.used = FirstGood(e)
           /\ \A r \in Range(o.rows) :
                 \E x \in Range(e[o.used].rows) :
                    x.latitude = r.latitude /\ x.longitude = r.longitude

\* the primary failed, alternate 1 delivered rows, alternate 2 (with other
\* rows) was left alone
C5_Witness ==
    /\ pc = "firms"
    /\ Fails(upstream.endpoints[1])
    /\ ~Fails(upstream.endpoints[2]) /\ ~Fails(upstream.endpoints[3])
    /\ upstream.endpoints[2].rows # upstream.endpoints[3].rows
    /\ Len(upstream.endpoints[3].rows) > 0
    /\ returned["firms"].attempted = <<1, 2>>
    /\ Len(returned["firms"].rows) > 0

\* C6 as stated: fetch_nasa_firms returns the first successful parse that
\* has rows among the primary and the alternates, and takes the explicitly
\* empty result only if no endpoint delivers a parse with rows.
C6_FirstNonEmptyParse ==
    pc = "firms" =>
        LET o == returned["firms"]
            e == upstream.endpoints
        IN /\ o.used = FirstNonEmpty(e)
           /\ o.early => FirstNonEmpty(e) = 0

\* C6 amended: fetch_nasa_firms takes its data from the first endpoint
\* whose read succeeds, with or without rows, and returns the explicitly
\* empty result exactly when every read failed or that first successful
\* parse has no rows.
C6_FirstSuccessfulParse ==
    pc = "firms" =>
        LET o == returned["firms"]
            e == upstream.endpoints
        IN /\ o.used = FirstGood(e)
           /\ o.early <=> (FirstGood(e) = 0 \/ Len(e[FirstGood(e)].rows) = 0)
           /\ o.early => (~o.raised /\ o.rows = <<>>)

\* the primary parsed without rows, so the rows of alternate 1 went unused
C6_Witness ==
    /\ pc = "firms"
    /\ upstream.endpoints[1].kind = "csv" /\ Len(upstream.endpoints[1].rows) = 0
    /\ upstream.endpoints[2].kind = "csv" /\ Len(upstream.endpoints[2].rows) > 0
    /\ returned["firms"].early
    /\ returned["firms"].attempted = <<1>>

ItemCell(text) == IF text = None \/ text = "" THEN None ELSE float(text)

\* the row an item stands for
ItemReturned(it, t, rows) ==
    \E r \in Range(rows) :
        /\ r.time_utc = t
        /\ r.latitude = ItemCell(it.lat)
        /\ r.longitude = ItemCell(Or(it.long, it.lon))

\* C7: with cutoff = now - hours_back, fetch_gdacs_events returns an item
\* whose publish time t can be parsed if and only if t >= cutoff.
C7_CutoffIff ==
    (pc = "gdacs" /\ upstream.ok) =>
        \A i \in 1..Len(upstream.items) :
            LET it == upstream.items[i]
                p == fromisoformat(gdacs_pubdate(it))
            IN p.ok =>
                (ItemReturned(it, p.t, returned["gdacs"].rows)
                    <=> p.t >= Cutoff(hours_back))

AdapterDone == pc \in {"usgs", "gdacs", "firms"}

Result == returned[pc]

GoodFeature(f) ==
    f.has_time /\ f.coordinates.kind = "array" /\ Len(f.coordinates.array) = 3

GoodItem(it) ==
    /\ fromisoformat(gdacs_pubdate(it)).ok
    /\ fromisoformat(gdacs_pubdate(it)).aware
    /\ ItemCell(it.lat) # "ValueError"
    /\ ItemCell(Or(it.long, it.lon)) # "ValueError"

GoodFireRow(r) == r.acq_date.kind = "date" /\ ~firms_datetime(r).error

\* C9: one malformed record does not abort the batch: when the transport
\* succeeded the adapter returns, and every well-formed record of the batch
\* (inside the window, where the adapter applies a cutoff) is among the
\* returned rows.
C9_RecordIsolation ==
    /\ (pc = "usgs" /\ upstream.ok) =>
          /\ ~Result.raised
          /\ \A f \in Range(upstream.features) :
                GoodFeature(f) =>
                    \E r \in Range(Result.rows) :
                        /\ r.time_utc = f.time \div 1000
                        /\ r.longitude = f.coordinates.array[1]
                        /\ r.latitude = f.coordinates.array[2]
    /\ (pc = "gdacs" /\ upstream.ok) =>
          /\ ~Result.raised
          /\ \A it \in Range(upstream.items) :
                (GoodItem(it) /\ fromisoformat(gdacs_pubdate(it)).t >= Cutoff(hours_back))
                    => ItemReturned(it, fromisoformat(gdacs_pubdate(it)).t, Result.rows)
    /\ (pc = "firms" /\ Result.used # 0
            /\ upstream.endpoints[Result.used].kind = "csv") =>
          /\ ~Result.raised
          /\ \A x \in Range(upstream.endpoints[Result.used].rows) :
                (GoodFireRow(x) /\ firms_datetime(x).t >= Cutoff(hours_back))
                    => \E r \in Range(Result.rows) :
                          /\ r.time_utc = firms_datetime(x).t
                          /\ r.latitude = x.latitude
                          /\ r.longitude = x.longitude

\* C10: every event an adapter returns has its latitude and its longitude
\* both present or both absent.
C10_BothOrNeither ==
    AdapterDone =>
        \A r \in Range(Result.rows) :
            (r.latitude = None) <=> (r.longitude = None)
====
